---- MODULE Spec2Model ----
\* Verification model of brainpipe's connectivity correction helpers
\* (src/brainpipe/connectivity/correction.py), of its Granger causality
\* estimator (src/brainpipe/connectivity/stgc.py) and of the classification
\* harness (src/xPOO/classification.py).
\*
\* Every function of the module is an action that reads its by-value
\* arguments from `args`, reads (and possibly writes) the caller's objects
\* `x`, `mask`, `df`, `mats`, and leaves its result in `ret`.
\* A 2-D array is a 0-indexed function (A[i][j]); a 1-D array is a sequence.
EXTENDS Integers, Sequences, FiniteSets, TLC

VARIABLES
    pc,     \* position of the caller: "call" before the call, then the name of the step done
    args,   \* the call made: function name and by-value arguments (n, part, mode, col, ...)
    ret,    \* what the call returned or raised
    x,      \* caller's square array (the ndarray object passed as mat / c / x / connect / arr)
    mask,   \* caller's validity mask of x (NoMask for a plain ndarray)
    df,     \* caller's annotation table (pandas DataFrame)
    mats,   \* caller's list of arrays passed to concat_connect
    obj,    \* the classify object (self.y, self.clf, self.cv), NoObject before it is built
    jobs,   \* the jobs handed to Parallel by a running fit, NoJobs otherwise
    da      \* the decoding accuracies the caller keeps from the last fit, NoDa before

vars == <<pc, args, ret, x, mask, df, mats, obj, jobs, da>>

\* ---------------------------------------------------------------------------
\* Bounds
\* ---------------------------------------------------------------------------
MaxN == 12      \* largest electrode count given to get_pairs
MatN == 3       \* largest number of rows of a caller's array
NElec == 3      \* largest number of channel labels given to remove_site_contact
AnatN == 3      \* largest number of electrodes of an annotated array
NLabels == 2    \* number of distinct region labels an annotation column can hold
FrameN == 2     \* largest number of electrodes when calls follow one another
MaxEntry == 2   \* a further call is made only while the entries of x are at most this
GcN == 3        \* largest number of sources given to covgc_time
TiN == 9        \* number of time samples of a recording
MaxDt == 7      \* largest window width dt
MaxLag == 2     \* largest lag
ArgN == 2       \* largest length of an axis of an array of any shape
MaxFeat == 2    \* most columns of the feature array given to fit and stat
MaxRep == 2     \* most repetitions of the cross-validation
MaxFolds == 2   \* folds of one cross-validation
MaxPerm == 2    \* most permutations asked of stat

\* entries of the caller's arrays
Vals == {0, 1}

\* ---------------------------------------------------------------------------
\* Values shared by all operations
\* ---------------------------------------------------------------------------
None == "None"
NoCall == [fn |-> "none"]
\* a validity mask: absent (np.ma.nomask, a plain ndarray) or a boolean array
NoMask == [on |-> FALSE]
Mask(m) == [on |-> TRUE, at |-> m]
NoTable == "nodf"
Raised(e) == [status |-> e]
Returned(v) == [status |-> "ok", val |-> v]
\* the function ends without a return statement: the caller gets None
ReturnedNone == [status |-> "none"]
\* no classify object, no running fit, no accuracies kept
NoObject == [made |-> FALSE]
NoJobs == [running |-> FALSE]
NoDa == [held |-> FALSE]
\* the connectivity and causality functions do not touch the harness
harness == <<obj, jobs, da>>
HarnessIdle == obj = NoObject /\ jobs = NoJobs /\ da = NoDa

Range(s) == {s[k] : k \in DOMAIN s}

\* a.shape[0] and a.shape[1] of a 2-D array stored as [0..r-1 -> [0..c-1 -> value]]
Shape0(a) == Cardinality(DOMAIN a)
Shape1(a) == IF DOMAIN a = {} THEN 0 ELSE Cardinality(DOMAIN a[0])

\* a.ndim of a caller's array: a non-empty sequence is a 1-D array, a function
\* on 0..r-1 (the empty one included) a 2-D array
Ndim(a) == IF DOMAIN a # {} /\ 0 \notin DOMAIN a THEN 1 ELSE 2

\* a.shape
Shape(a) == IF Ndim(a) = 1 THEN <<Len(a)>> ELSE <<Shape0(a), Shape1(a)>>

\* the (n, n) arrays with entries in vals
SquareArrays(n, vals) == [0..(n - 1) -> [0..(n - 1) -> vals]]

\* np.zeros((n, n))
Zeros(n) == [i \in 0..(n - 1) |-> [j \in 0..(n - 1) |-> 0]]

\* a.T
Transpose(a) == [j \in 0..(Shape1(a) - 1) |-> [i \in 0..(Shape0(a) - 1) |-> a[i][j]]]

\* ---------------------------------------------------------------------------
\* numpy index helpers
\* ---------------------------------------------------------------------------
\* np.tri(n, n, k, dtype=bool): ones at and below the k-th diagonal
Tri(n, k) == [i \in 0..(n - 1) |-> [j \in 0..(n - 1) |-> j <= i + k]]

\* ~m for a boolean array
Invert(m) == [i \in DOMAIN m |-> [j \in DOMAIN m[i] |-> ~m[i][j]]]

RECURSIVE NonzeroRow(_, _, _, _)
\* the true entries of row i from column j on, left to right
NonzeroRow(m, n, i, j) ==
    IF j >= n THEN << >>
    ELSE (IF m[i][j] THEN << <<i, j>> >> ELSE << >>) \o NonzeroRow(m, n, i, j + 1)

RECURSIVE NonzeroRows(_, _, _)
\* the true entries of rows i, i + 1, ..., top to bottom
NonzeroRows(m, n, i) ==
    IF i >= n THEN << >> ELSE NonzeroRow(m, n, i, 0) \o NonzeroRows(m, n, i + 1)

\* np.nonzero(m) of an (n, n) boolean array: (row indices, column indices) of
\* the true entries in row-major (C) order
Nonzero(m, n) ==
    LET ps == NonzeroRows(m, n, 0)
    IN  << [k \in 1..Len(ps) |-> ps[k][1]], [k \in 1..Len(ps) |-> ps[k][2]] >>

\* mutant: the diagonal offset is not applied (k = 0 instead of k = 1)
TriuIndicesKeepsDiagonal(n, k) == Nonzero(Invert(Tri(n, k - 2)), n)

\* np.triu_indices(n, k) == nonzero(~tri(n, n, k - 1))
TriuIndices(n, k) == Nonzero(Invert(Tri(n, k - 1)), n)

\* np.tril_indices(n, k) == nonzero(tri(n, n, k))
TrilIndices(n, k) == Nonzero(Tri(n, k), n)

\* np.c_[idx]: two parallel index sequences side by side, an (n_pairs, 2) array
ColumnStack(idx) == [k \in 1..Len(idx[1]) |-> <<idx[1][k], idx[2][k]>>]

\* mutant: the two blocks are stacked in the opposite order
RowStackSwapped(a, b) == b \o a

\* np.r_[a, b]: rows of a followed by rows of b
RowStack(a, b) == a \o b

\* (_idx[:, 0], _idx[:, 1])
Columns(a) == << [k \in 1..Len(a) |-> a[k][1]], [k \in 1..Len(a) |-> a[k][2]] >>

\* ---------------------------------------------------------------------------
\* get_pairs(n, part, as_array)
\* ---------------------------------------------------------------------------
Parts == {"upper", "lower", "both"}

get_pairs_idx(n, part) ==
    IF part = "upper" THEN TriuIndices(n, 1)
    ELSE IF part = "lower" THEN TrilIndices(n, -1)
    ELSE LET high == ColumnStack(TriuIndices(n, 1))
             low == ColumnStack(TrilIndices(n, -1))
             _idx == RowStack(high, low)
         IN  Columns(_idx)

get_pairs(n, part, as_array) ==
    IF part \notin Parts THEN Raised("AssertionError")
    ELSE IF as_array THEN Returned(ColumnStack(get_pairs_idx(n, part)))
    ELSE Returned(get_pairs_idx(n, part))

\* the call get_pairs(n, part, as_array) with n drawn from N
GetPairsOf(N) ==
    /\ pc = "call"
    /\ \E n \in N, part \in Parts \cup {"diag"}, as_array \in BOOLEAN :
          /\ args' = [fn |-> "get_pairs", n |-> n, part |-> part, as_array |-> as_array]
          /\ ret' = get_pairs(n, part, as_array)
    /\ pc' = "get_pairs"
    /\ UNCHANGED <<x, mask, df, mats, obj, jobs, da>>

GetPairs == GetPairsOf(0..MaxN)

InitPairs ==
    /\ pc = "call"
    /\ HarnessIdle
    /\ args = NoCall
    /\ ret = None
    /\ x = << >>
    /\ mask = NoMask
    /\ df = NoTable
    /\ mats = << >>

NextPairs == GetPairs

SpecPairs == InitPairs /\ [][NextPairs]_vars

\* ---------------------------------------------------------------------------
\* ravel_connect / unravel_connect / symmetrize
\* ---------------------------------------------------------------------------
\* a[idx] with idx = (row indices, column indices): fancy indexing, a new 1-D array
FancyIndex(a, idx) == [k \in 1..Len(idx[1]) |-> a[idx[1][k]][idx[2][k]]]

\* mutant: the array is not required to be square
ravel_connect_NoSquareCheck(connect, part) ==
    IF Ndim(connect) # 2 THEN Raised("AssertionError")
    ELSE LET pairs == get_pairs(Shape0(connect), part, FALSE)
         IN  IF pairs.status # "ok" THEN pairs
             ELSE IF \E k \in 1..Len(pairs.val[2]) : pairs.val[2][k] >= Shape1(connect)
             THEN Raised("IndexError")
             ELSE Returned(FancyIndex(connect, pairs.val))

ravel_connect(connect, part) ==
    IF Ndim(connect) # 2 THEN Raised("AssertionError")
    ELSE IF Shape0(connect) # Shape1(connect) THEN Raised("AssertionError")
    ELSE LET pairs == get_pairs(Shape0(connect), part, FALSE)
         IN  IF pairs.status # "ok" THEN pairs
             ELSE Returned(FancyIndex(connect, pairs.val))

RECURSIVE ScatterFrom(_, _, _, _)
\* mutant: the values are written at (col, row) instead of (row, col)
ScatterFromTransposed(a, idx, v, k) ==
    IF k > Len(idx[1]) THEN a
    ELSE ScatterFrom([a EXCEPT ![idx[2][k]][idx[1][k]] = IF Len(v) = 1 THEN v[1] ELSE v[k]],
                     idx, v, k + 1)

\* a[idx[0], idx[1]] = v, element k of v written at (idx[0][k], idx[1][k]);
\* a one-element v is broadcast
ScatterFrom(a, idx, v, k) ==
    IF k > Len(idx[1]) THEN a
    ELSE ScatterFrom([a EXCEPT ![idx[1][k]][idx[2][k]] = IF Len(v) = 1 THEN v[1] ELSE v[k]],
                     idx, v, k + 1)

unravel_connect(connect, n_sites, part) ==
    LET pairs == get_pairs(n_sites, part, FALSE)
    IN  IF pairs.status # "ok" THEN pairs
        ELSE IF Len(connect) # Len(pairs.val[1]) /\ Len(connect) # 1
             THEN Raised("ValueError")       \* shape mismatch in the assignment
        ELSE Returned(ScatterFrom(Zeros(n_sites), pairs.val, connect, 1))

\* mutant: the diagonal is not subtracted back
symmetrize_DoubleDiagonal(arr) ==
    IF Ndim(arr) # 2 \/ Shape0(arr) # Shape1(arr) THEN Raised("AssertionError")
    ELSE Returned([i \in DOMAIN arr |-> [j \in DOMAIN arr |-> arr[i][j] + arr[j][i]]])

symmetrize(arr) ==
    IF Ndim(arr) # 2 \/ Shape0(arr) # Shape1(arr) THEN Raised("AssertionError")
    ELSE LET t == Transpose(arr)
             \* np.diag(arr.diagonal())
             d == [i \in DOMAIN arr |-> [j \in DOMAIN arr |-> IF i = j THEN arr[i][i] ELSE 0]]
         IN  Returned([i \in DOMAIN arr |->
                          [j \in DOMAIN arr |-> arr[i][j] + t[i][j] - d[i][j]]])

\* the call ravel_connect(x, part)
RavelConnect ==
    /\ pc = "call"
    /\ \E part \in Parts :
          /\ args' = [fn |-> "ravel_connect", part |-> part]
          /\ ret' = ravel_connect(x, part)
    /\ pc' = "ravel_connect"
    /\ UNCHANGED <<x, mask, df, mats, obj, jobs, da>>

\* the call unravel_connect(v, n_sites, part) on the vector v that
\* ravel_connect(x, part) returned
UnravelConnect ==
    /\ pc = "ravel_connect"
    /\ ret.status = "ok"
    /\ \E n_sites \in {Shape0(x), Shape0(x) + 1} :
          /\ args' = [fn |-> "unravel_connect", part |-> args.part, n_sites |-> n_sites]
          /\ ret' = unravel_connect(ret.val, n_sites, args.part)
    /\ pc' = "unravel_connect"
    /\ UNCHANGED <<x, mask, df, mats, obj, jobs, da>>

\* the call symmetrize(x)
Symmetrize ==
    /\ pc = "call"
    /\ args' = [fn |-> "symmetrize"]
    /\ ret' = symmetrize(x)
    /\ pc' = "symmetrize"
    /\ UNCHANGED <<x, mask, df, mats, obj, jobs, da>>

InitReshape ==
    /\ pc = "call"
    /\ HarnessIdle
    /\ args = NoCall
    /\ \E n \in 0..MatN : x \in SquareArrays(n, Vals)
    /\ ret = None
    /\ mask = NoMask
    /\ df = NoTable
    /\ mats = << >>

NextReshape == RavelConnect \/ UnravelConnect \/ Symmetrize

SpecReshape == InitReshape /\ [][NextReshape]_vars

\* ---------------------------------------------------------------------------
\* remove_site_contact(mat, channels, mode, remove_lower, symmetrical)
\* ---------------------------------------------------------------------------
\* A channel label is the sequence of its characters.
DigitChars == <<"0", "1", "2", "3", "4", "5", "6", "7", "8", "9">>
IsDigit(c) == c \in Range(DigitChars)
DigitValue(c) == (CHOOSE d \in 1..10 : DigitChars[d] = c) - 1

\* the labels the channel lists are drawn from: bipolar derivations of two
\* shafts, zero-padded contact numbers, two-digit contact numbers and
\* single-contact labels
Label_A1A2 == <<"A", "1", "-", "A", "2">>
Label_A2A3 == <<"A", "2", "-", "A", "3">>
Label_A3A4 == <<"A", "3", "-", "A", "4">>
Label_B1B2 == <<"B", "1", "-", "B", "2">>
Label_A02A03 == <<"A", "0", "2", "-", "A", "0", "3">>
Label_A9A10 == <<"A", "9", "-", "A", "1", "0">>
Label_A10A11 == <<"A", "1", "0", "-", "A", "1", "1">>
Label_A1 == <<"A", "1">>
Label_A2 == <<"A", "2">>
Label_B1 == <<"B", "1">>
Labels == {Label_A1A2, Label_A2A3, Label_A3A4, Label_B1B2, Label_A02A03,
           Label_A9A10, Label_A10A11, Label_A1, Label_A2, Label_B1}

RECURSIVE Runs(_, _, _, _)
\* re.findall of a one-or-more character class: the maximal runs of characters
\* that are digits (digit = TRUE, r'\d+') or are not (digit = FALSE, r'\D+')
Runs(k, p, cur, digit) ==
    IF p > Len(k) THEN (IF cur = << >> THEN << >> ELSE <<cur>>)
    ELSE IF IsDigit(k[p]) = digit THEN Runs(k, p + 1, Append(cur, k[p]), digit)
    ELSE (IF cur = << >> THEN << >> ELSE <<cur>>) \o Runs(k, p + 1, << >>, digit)

Findall(digit, k) == Runs(k, 1, << >>, digit)

RECURSIVE ParseInt(_)
\* int(s) of a run of digits
ParseInt(ds) ==
    IF ds = << >> THEN 0
    ELSE 10 * ParseInt(SubSeq(ds, 1, Len(ds) - 1)) + DigitValue(ds[Len(ds)])

RECURSIVE FormatInt(_)
\* str(v) of a non-negative int: decimal digits without leading zeros
FormatInt(v) ==
    IF v < 10 THEN <<DigitChars[v + 1]>>
    ELSE FormatInt(v \div 10) \o <<DigitChars[(v % 10) + 1]>>

\* The mode argument is a str object: its value and whether it is the very
\* object of the literal 'soft' (an interned constant) or an equal string built
\* at run time.  `mode is 'soft'` compares identities, `mode in [...]` values.
Mode(s, interned) == [s |-> s, interned |-> interned]
IsLiteral(mode, lit) == mode.s = lit /\ mode.interned

\* select.astype(int) / .astype(bool)
AsInt(m) == [i \in DOMAIN m |-> [j \in DOMAIN m |-> IF m[i][j] THEN 1 ELSE 0]]
AsBool(m) == [i \in DOMAIN m |-> [j \in DOMAIN m |-> m[i][j] # 0]]

\* np.diag_indices(n)
DiagIndices(n) == << [k \in 1..n |-> k - 1], [k \in 1..n |-> k - 1] >>

\* [findall(r'\D+', k)[0]] + findall(r'\d+', k)
ChannelRow(k) == <<Findall(FALSE, k)[1]>> \o Findall(TRUE, k)

\* to_remove of electrode i (0-based) as computed inside the loop
ToRemove(r, i, n_elec, mode) ==
    LET letter == r[i][1]
        digit_1 == ParseInt(r[i][2])
        digit_2 == ParseInt(r[i][3])
    IN  IF IsLiteral(mode, "soft")
        THEN LET next_contact == <<letter, FormatInt(digit_1 + 1), FormatInt(digit_2 + 1)>>
             IN  [j \in 0..(n_elec - 1) |-> r[j] = next_contact]
        ELSE [j \in 0..(n_elec - 1) |-> r[j][1] = letter /\ j # i]

\* select[np.tril_indices(n_elec)] = remove_lower
LowerForced(select, n_elec, remove_lower) ==
    ScatterFrom(select, TrilIndices(n_elec, 0), <<remove_lower>>, 1)

remove_site_contact(mat, channels, mode, remove_lower, symmetrical) ==
    LET n_elec == Len(channels)
        N == 0..(n_elec - 1)
    IN  IF ~(Shape(mat) = <<n_elec, n_elec>> /\ mode.s \in {"soft", "hard"})
        THEN Raised("AssertionError")
        ELSE IF \E k \in 1..n_elec : Findall(FALSE, channels[k]) = << >>
        THEN Raised("IndexError")               \* findall(r'\D+', k)[0]
        ELSE LET r == [i \in N |-> ChannelRow(channels[i + 1])]
             IN  IF \E i, j \in N : Len(r[i]) # Len(r[j])
                 THEN Raised("ValueError")      \* np.asarray of rows of unequal length
                 ELSE IF n_elec > 0 /\ Len(r[0]) < 3
                 THEN Raised("IndexError")      \* k[1] or k[2]
                 ELSE IF n_elec > 0 /\ Len(r[0]) > 3 /\ IsLiteral(mode, "soft")
                 THEN Raised("AxisError")       \* r == next_contact does not broadcast
                 ELSE LET loop == [i \in N |-> ToRemove(r, i, n_elec, mode)]
                          lower == LowerForced(loop, n_elec, remove_lower)
                          sym == IF symmetrical
                                 THEN AsBool(symmetrize(AsInt(lower)).val)
                                 ELSE lower
                      IN  Returned(ScatterFrom(sym, DiagIndices(n_elec), <<TRUE>>, 1))

\* the call remove_site_contact(x, channels, mode, remove_lower, symmetrical)
\* with the channel labels drawn from L
RemoveSiteContactOf(L) ==
    /\ pc = "call"
    /\ \E channels \in [1..Shape0(x) -> L], s \in {"soft", "hard", "medium"},
          interned, remove_lower, symmetrical \in BOOLEAN :
          /\ args' = [fn |-> "remove_site_contact", channels |-> channels,
                      mode |-> Mode(s, interned), remove_lower |-> remove_lower,
                      symmetrical |-> symmetrical]
          /\ ret' = remove_site_contact(x, channels, Mode(s, interned),
                                        remove_lower, symmetrical)
    /\ pc' = "remove_site_contact"
    /\ UNCHANGED <<x, mask, df, mats, obj, jobs, da>>

RemoveSiteContact == RemoveSiteContactOf(Labels)

InitContact ==
    /\ pc = "call"
    /\ HarnessIdle
    /\ args = NoCall
    /\ \E n \in 0..NElec : x = Zeros(n)
    /\ ret = None
    /\ mask = NoMask
    /\ df = NoTable
    /\ mats = << >>

NextContact == RemoveSiteContact

SpecContact == InitContact /\ [][NextContact]_vars

\* ---------------------------------------------------------------------------
\* concat_connect(connect, fill_with)
\* ---------------------------------------------------------------------------
\* An array of the list is [data, mask]; mask is NoMask for a plain ndarray.
Array(data, m) == [data |-> data, mask |-> m]

\* np.ma.is_masked(k): a masked array with at least one masked entry
IsMasked(k) ==
    k.mask.on /\ \E i, j \in DOMAIN k.mask.at : k.mask.at[i][j]

\* np.full((sh, sh), v)
Full(sh, v) == [i \in 0..(sh - 1) |-> [j \in 0..(sh - 1) |-> v]]

RECURSIVE SumSeq(_)
\* np.sum([shapes])
SumSeq(q) == IF q = << >> THEN 0 ELSE q[1] + SumSeq(Tail(q))

\* a[sl, sl] = c with sl = slice(q, q + s): values of c, and for a masked
\* target the mask of c (nothing masked when c is a plain ndarray)
SetBlock(a, q, s, c) ==
    LET inside(i, j) == q <= i /\ i < q + s /\ q <= j /\ j < q + s
        n == DOMAIN a.data
    IN  [data |-> [i \in n |-> [j \in n |->
                      IF inside(i, j) THEN c.data[i - q][j - q] ELSE a.data[i][j]]],
         mask |-> IF ~a.mask.on THEN NoMask
                  ELSE Mask([i \in n |-> [j \in n |->
                          IF inside(i, j)
                          THEN (IF c.mask.on THEN c.mask.at[i - q][j - q] ELSE FALSE)
                          ELSE a.mask.at[i][j]]])]

RECURSIVE MergeFrom(_, _, _, _, _)
\* mutant: the offset q is not advanced after a block
MergeFromSameOffset(a, connect, shapes, k, q) ==
    IF k > Len(connect) THEN a
    ELSE MergeFrom(SetBlock(a, q, shapes[k], connect[k]), connect, shapes, k + 1, q)

\* the merge loop: for k, (c, s) in enumerate(zip(connect, shapes))
MergeFrom(a, connect, shapes, k, q) ==
    IF k > Len(connect) THEN a
    ELSE MergeFrom(SetBlock(a, q, shapes[k], connect[k]), connect, shapes,
                   k + 1, q + shapes[k])

concat_connect(connect, fill_with) ==
    IF connect = << >>
    THEN Raised("TypeError")    \* np.sum([[]]) is the float 0.0, not a valid shape
    ELSE LET shapes == [k \in 1..Len(connect) |-> Shape0(connect[k].data)]
             sh == SumSeq(shapes)
             plain == Array(Full(sh, fill_with), NoMask)
             aconnect == IF \E k \in 1..Len(connect) : IsMasked(connect[k])
                         THEN Array(plain.data, Mask(Full(sh, TRUE)))
                         ELSE plain
         IN  Returned(MergeFrom(aconnect, connect, shapes, 1, 0))

\* the call concat_connect(mats, fill_with)
ConcatConnect ==
    /\ pc = "call"
    /\ \E fill_with \in {0, -1} :
          /\ args' = [fn |-> "concat_connect", fill_with |-> fill_with]
          /\ ret' = concat_connect(mats, fill_with)
    /\ pc' = "concat_connect"
    /\ UNCHANGED <<x, mask, df, mats, obj, jobs, da>>

\* the lists of block sizes (each >= 1) whose sum is at most total
RECURSIVE SizeLists(_)
SizeLists(total) ==
    {<< >>} \cup UNION {{<<s>> \o rest : rest \in SizeLists(total - s)} : s \in 1..total}

\* the arrays of s rows a caller can pass: plain, or masked at entry (0, 0)
ArraysOfSize(s) ==
    {Array(d, m) : d \in SquareArrays(s, Vals),
                   m \in {NoMask, Mask([i \in 0..(s - 1) |-> [j \in 0..(s - 1) |-> i = 0 /\ j = 0]])}}

\* the lists of arrays whose numbers of rows are the given sizes
RECURSIVE ArrayLists(_)
ArrayLists(sizes) ==
    IF sizes = << >> THEN {<< >>}
    ELSE {<<a>> \o rest : a \in ArraysOfSize(sizes[1]), rest \in ArrayLists(Tail(sizes))}

InitConcat ==
    /\ pc = "call"
    /\ HarnessIdle
    /\ args = NoCall
    /\ \E sizes \in SizeLists(MatN) : mats \in ArrayLists(sizes)
    /\ ret = None
    /\ x = << >>
    /\ mask = NoMask
    /\ df = NoTable

NextConcat == ConcatConnect

SpecConcat == InitConcat /\ [][NextConcat]_vars

\* ---------------------------------------------------------------------------
\* anat_based_reorder(c, df, col, part) / anat_based_mean(x, df, col, fill_with, xyz)
\* ---------------------------------------------------------------------------
\* The annotation table: df.names is the list of column names (df.keys()),
\* df.data[name][k] the value of column `name` at row k (RangeIndex 0..n-1).
\* A region label is an integer; the order of the integers is the sort order
\* of the labels.
Table(names, data) == [names |-> names, data |-> data]
Rows(t) == IF t.names = << >> THEN {} ELSE DOMAIN t.data[t.names[1]]

Min(S) == CHOOSE m \in S : \A o \in S : m <= o
Max(S) == CHOOSE m \in S : \A o \in S : m >= o

RECURSIVE Sorted(_)
\* the elements of a finite set of integers in ascending order
Sorted(S) == IF S = {} THEN << >> ELSE <<Min(S)>> \o Sorted(S \ {Min(S)})

RECURSIVE Uniques(_, _, _)
\* the values of a column in order of first appearance
Uniques(column, k, seen) ==
    IF k \notin DOMAIN column THEN seen
    ELSE Uniques(column, k + 1,
                 IF column[k] \in Range(seen) THEN seen ELSE Append(seen, column[k]))

\* mutant: the keys are sorted whatever `sort` says
GroupKeysAlwaysSorted(column, sort) == Sorted(Range(column))

\* keys of df.groupby(col, sort=sort).groups, in the order of the dict
GroupKeys(column, sort) ==
    IF sort THEN Sorted(Range(column)) ELSE Uniques(column, 0, << >>)

\* values of df.groupby(col, sort=sort).groups: per key, the rows that hold it
GroupRows(column, sort) ==
    LET keys == GroupKeys(column, sort)
    IN  [g \in 1..Len(keys) |-> Sorted({k \in DOMAIN column : column[k] = keys[g]})]

RECURSIVE Concatenate(_)
\* np.concatenate of a list of 1-D lists
Concatenate(lists) == IF lists = << >> THEN << >> ELSE lists[1] \o Concatenate(Tail(lists))

RECURSIVE ReorderFrom(_, _, _, _, _)
\* for k, i in pairs: c_r[min(index[k], index[i]), max(index[k], index[i])] = c[k, i]
ReorderFrom(c_r, c, pairs, index, p) ==
    IF p > Len(pairs) THEN c_r
    ELSE LET k == pairs[p][1]
             i == pairs[p][2]
             row == Min({index[k + 1], index[i + 1]})
             col == Max({index[k + 1], index[i + 1]})
         IN  ReorderFrom([c_r EXCEPT ![row][col] = c[k][i]], c, pairs, index, p + 1)

anat_based_reorder(c, t, col, part) ==
    IF Ndim(c) # 2 THEN Raised("AssertionError")
    ELSE IF col \notin Range(t.names) THEN Raised("AssertionError")
    ELSE LET n_elec == Shape0(c)
             grp == GroupRows(t.data[col], TRUE)        \* groupby(col): sort=True
             labels == t.names
         IN  IF grp = << >> THEN Raised("ValueError")   \* np.concatenate([])
             ELSE LET index == Concatenate(grp)
                      pairs == get_pairs(n_elec, part, FALSE)
                  IN  IF pairs.status # "ok" THEN pairs
                      ELSE Returned([c_r |-> ReorderFrom(Zeros(n_elec), c,
                                                         ColumnStack(pairs.val), index, 1),
                                     labels |-> labels,
                                     index |-> index])

\* np.fill_diagonal(a, v)
FillDiagonal(a, v) == [i \in DOMAIN a |-> [j \in DOMAIN a |-> IF i = j THEN v ELSE a[i][j]]]

\* np.triu(a): zero (False) below the diagonal
Triu(a, zero) == [i \in DOMAIN a |-> [j \in DOMAIN a |-> IF j >= i THEN a[i][j] ELSE zero]]

\* the mean of a block, kept as the exact quotient num / den
Quotient(num, den) == [num |-> num, den |-> den]

RECURSIVE SumOver(_, _)
SumOver(f, S) == IF S = {} THEN 0
                 ELSE LET e == CHOOSE e \in S : TRUE IN f[e] + SumOver(f, S \ {e})

\* x[_r, cols].mean() of a plain array
BlockMean(a, rows, cols) ==
    LET cells == Range(rows) \X Range(cols)
    IN  Quotient(SumOver([p \in cells |-> a[p[1]][p[2]]], cells), Cardinality(cells))

\* x[_r, cols].mean() of a masked array: the mean of the valid entries, or the
\* masked constant when none is valid
MaskedBlockMean(a, m, rows, cols) ==
    LET cells == {p \in Range(rows) \X Range(cols) : ~m[p[1]][p[2]]}
    IN  Quotient(SumOver([p \in cells |-> a[p[1]][p[2]]], cells), Cardinality(cells))

\* What anat_based_mean does to the caller's array before it takes the means:
\* `cx`, `cm` are the caller's data and mask afterwards, `lx`, `lm` the array
\* the local name x is bound to when the loop starts.
ProcessArray(a, m) ==
    LET d0 == FillDiagonal(a, 0)                          \* np.fill_diagonal(x, 0.)
        m0 == IF m.on THEN Mask(FillDiagonal(m.at, FALSE)) ELSE m
        is_masked == IsMasked(Array(d0, m0))
    IN  IF is_masked
        THEN LET m1 == FillDiagonal(Triu(m0.at, FALSE), TRUE)   \* x.mask = np.triu(x.mask); fill True
                 m2 == [i \in DOMAIN a |-> [j \in DOMAIN a |-> m1[i][j] \/ m1[j][i]]]
                 \* x += x.T: the mask is or-ed with its transpose, valid entries are added
                 d2 == [i \in DOMAIN a |-> [j \in DOMAIN a |->
                           d0[i][j] + (IF m2[i][j] THEN 0 ELSE d0[j][i])]]
             IN  [is_masked |-> TRUE, cx |-> d2, cm |-> Mask(m2), lx |-> d2, lm |-> Mask(m2)]
        ELSE LET u == Triu(d0, 0)                               \* x = np.triu(x): a new array
                 d2 == [i \in DOMAIN a |-> [j \in DOMAIN a |-> u[i][j] + u[j][i]]]
             IN  [is_masked |-> FALSE, cx |-> d0, cm |-> m0, lx |-> d2, lm |-> NoMask]

\* the n_roi x n_roi array of block means
MeanInsideRois(px, rois) ==
    LET R == 0..(Len(rois) - 1)
    IN  IF px.is_masked
        THEN LET q == [r \in R |-> [c \in R |->
                         MaskedBlockMean(px.lx, px.lm.at, rois[r + 1], rois[c + 1])]]
             IN  Array([r \in R |-> [c \in R |->
                           IF q[r][c].den = 0 THEN Quotient(1, 1) ELSE q[r][c]]],
                       IF \E r, c \in R : q[r][c].den = 0
                       THEN Mask([r \in R |-> [c \in R |-> q[r][c].den = 0]])
                       ELSE NoMask)
        ELSE Array([r \in R |-> [c \in R |-> BlockMean(px.lx, rois[r + 1], rois[c + 1])]],
                   NoMask)

\* xyz: None, or an (m, 3) array of coordinates
NoXyz == [given |-> FALSE]
Xyz(a) == [given |-> TRUE, at |-> a]

\* df['X'], df['Y'], df['Z'] = xyz[:, 0], xyz[:, 1], xyz[:, 2]
WithCoordinates(t, xyz) ==
    LET set(tt, name, k) ==
            Table(IF name \in Range(tt.names) THEN tt.names ELSE Append(tt.names, name),
                  [c \in Range(tt.names) \cup {name} |->
                      IF c = name THEN [r \in Rows(t) |-> xyz.at[r][k]] ELSE tt.data[c]])
    IN  set(set(set(t, "X", 1), "Y", 2), "Z", 3)

\* df.groupby(col, sort=False).mean() ... df.loc[labels][['X', 'Y', 'Z']]
Centroids(t, col, rois) ==
    [g \in 1..Len(rois) |->
        [k \in 1..3 |->
            Quotient(SumOver([r \in Range(rois[g]) |-> t.data[<<"X", "Y", "Z">>[k]][r]],
                             Range(rois[g])),
                     Len(rois[g]))]]

\* anat_based_mean: `out` is what the call returns, `x`, `mask`, `df` are the
\* caller's objects when it returns
anat_based_mean(a, m, t, col, xyz) ==
    IF Ndim(a) # 2 \/ col \notin Range(t.names)
    THEN [out |-> Raised("AssertionError"), x |-> a, mask |-> m, df |-> t]
    ELSE LET labels == GroupKeys(t.data[col], FALSE)
             rois == GroupRows(t.data[col], FALSE)
             px == ProcessArray(a, m)
             con == MeanInsideRois(px, rois)
         IN  IF xyz = NoXyz
             THEN [out |-> Returned([con |-> con, labels |-> labels]),
                   x |-> px.cx, mask |-> px.cm, df |-> t]
             ELSE IF Shape0(xyz.at) = Cardinality(Rows(t))
             THEN LET t2 == WithCoordinates(t, xyz)
                  IN  [out |-> Returned([con |-> con, labels |-> labels,
                                         xyz_r |-> Centroids(t2, col, rois)]),
                       x |-> px.cx, mask |-> px.cm, df |-> t2]
             ELSE [out |-> ReturnedNone, x |-> px.cx, mask |-> px.cm, df |-> t]

\* the call anat_based_reorder(x, df, col, part) with a plain ndarray x and the
\* column name drawn from Cols
AnatBasedReorderOf(Cols) ==
    /\ pc = "call"
    /\ ~mask.on
    /\ \E col \in Cols, part \in Parts :
          /\ col = "gyrus" => part = "upper"
          /\ args' = [fn |-> "anat_based_reorder", col |-> col, part |-> part]
          /\ ret' = anat_based_reorder(x, df, col, part)
    /\ pc' = "anat_based_reorder"
    /\ UNCHANGED <<x, mask, df, mats, obj, jobs, da>>

AnatBasedReorder == AnatBasedReorderOf({"roi", "gyrus"})

\* coordinates of electrode r (0-based) in the xyz arrays passed by the caller
Coordinates(rows) == Xyz([r \in 0..(rows - 1) |-> <<r, 2 * r, 1>>])

\* the call anat_based_mean(x, df, col, xyz=xyz) with the column name drawn
\* from Cols
AnatBasedMeanOf(Cols) ==
    /\ pc = "call"
    /\ \E col \in Cols,
          xyz \in {NoXyz, Coordinates(Shape0(x)), Coordinates(Shape0(x) + 1)} :
          LET r == anat_based_mean(x, mask, df, col, xyz)
          IN  /\ col = "gyrus" => xyz = NoXyz
              /\ args' = [fn |-> "anat_based_mean", col |-> col, xyz |-> xyz]
              /\ ret' = r.out
              /\ x' = r.x
              /\ mask' = r.mask
              /\ df' = r.df
    /\ pc' = "anat_based_mean"
    /\ UNCHANGED <<mats, obj, jobs, da>>

AnatBasedMean == AnatBasedMeanOf({"roi", "gyrus"})

\* the (n, n) arrays with a free strict upper triangle, one value on the whole
\* diagonal and one value on the whole strict lower triangle
AnatArrays(n) ==
    {[i \in 0..(n - 1) |-> [j \in 0..(n - 1) |->
         IF i < j THEN u[<<i, j>>] ELSE IF i = j THEN d ELSE l]] :
     u \in [{p \in (0..(n - 1)) \X (0..(n - 1)) : p[1] < p[2]} -> Vals], d \in Vals, l \in Vals}

\* a mask with the single entry (i, j) masked
MaskAt(n, i, j) == Mask([a \in 0..(n - 1) |-> [b \in 0..(n - 1) |-> a = i /\ b = j]])

AnatMasks(n) ==
    {NoMask} \cup (IF n >= 2 THEN {MaskAt(n, 0, 0), MaskAt(n, 0, n - 1), MaskAt(n, n - 1, 0)}
                   ELSE {})

InitAnat ==
    /\ pc = "call"
    /\ HarnessIdle
    /\ args = NoCall
    /\ \E n \in 0..AnatN :
          /\ x \in AnatArrays(n)
          /\ \E roi \in [0..(n - 1) -> 1..NLabels] : df = Table(<<"roi">>, [roi |-> roi])
    /\ mask = NoMask
    /\ ret = None
    /\ mats = << >>

NextAnat == AnatBasedReorder \/ AnatBasedMean

SpecAnat == InitAnat /\ [][NextAnat]_vars

\* ---------------------------------------------------------------------------
\* covgc_time(x, dt, lag, t0)   (src/brainpipe/connectivity/stgc.py)
\* ---------------------------------------------------------------------------
\* A numeric argument is a Python object: its type and its value.
Num(type, val) == [type |-> type, val |-> val]

\* a 1-D array with its elements evaluated once
Evaluated(v) == v \o << >>

\* isinstance(k, int)
IsInstanceInt(k) == k.type = "int"

\* ind_t: (np.arange(t0 - dt, t0).reshape(1, -1)
\*         - np.arange(lag + 1).reshape(-1, 1)).ravel(), row-major
IndT(dt, lag, t0) ==
    Evaluated([k \in 1..((lag + 1) * dt) |->
                 LET l == (k - 1) \div dt
                     d == (k - 1) % dt
                 IN  (t0 - dt + d) - l])

\* the index i is valid on an axis of n_ti samples
InRange(i, n_ti) == -n_ti <= i /\ i < n_ti

\* x[p, ind_t]: a negative index counts from the end of the row
Take(row, ind, n_ti) ==
    Evaluated([k \in 1..Len(ind) |-> row[IF ind[k] < 0 THEN ind[k] + n_ti ELSE ind[k]]])

\* v.reshape(r, c)
Reshape(v, r, c) ==
    Evaluated([l \in 1..r |-> Evaluated([d \in 1..c |-> v[(l - 1) * c + d]])])

\* the values of a float determinant, log or magnitude are kept as classes:
\*   determinant: "pos", "zero", "neg", "nan"
\*   real part of a log or of a sum of logs: "fin", "pinf", "ninf", "nan"
\*   magnitude: "finite" (a finite number >= 0), "inf", "nan", and "zero" for
\*   the float 0.0 written over it
RECURSIVE Independent(_, _)
\* the rows (integer vectors of one length) are linearly independent:
\* fraction-free elimination, prev is the previous pivot
Independent(rows, prev) ==
    IF rows = << >> THEN TRUE
    ELSE LET r == rows[1]
             nz == {d \in 1..Len(r) : r[d] # 0}
         IN  IF nz = {} THEN FALSE
             ELSE LET p == CHOOSE d \in nz : \A e \in nz : d <= e
                      rest == Evaluated([i \in 1..(Len(rows) - 1) |->
                                 Evaluated([d \in 1..Len(r) |->
                                     (rows[i + 1][d] * r[p] - rows[i + 1][p] * r[d]) \div prev])])
                  IN  Independent(rest, r[p])

\* det(np.cov(m)) of an array m of Len(m) variables (rows) and dt observations.
\* np.cov squeezes its result: one variable gives a 0-d array, which det
\* refuses.  With dt <= 1 the normalisation 1 / (dt - 1) is not finite and
\* every entry is NaN.  Otherwise the covariance is the Gram matrix of the
\* centred rows: its determinant is positive when the rows and the constant
\* row are linearly independent; it is exactly 0.0 when a row is constant (a
\* zero row and column); for any other singular matrix the LU factorisation
\* leaves 0.0 or a rounding residue of either sign (`rounding`).
DetCov(m, dt, rounding) ==
    IF Len(m) = 1 THEN "LinAlgError"
    ELSE IF Len(m) = 0 THEN "pos"
    ELSE IF dt <= 1 THEN "nan"
    ELSE IF \E i \in 1..Len(m) : \A d \in 1..dt : m[i][d] = m[i][1] THEN "zero"
    ELSE IF Independent(Append(m, Evaluated([d \in 1..dt |-> 1])), 1) THEN "pos"
    ELSE rounding

\* numpy.lib.scimath.log: the real log of a positive number, -inf for 0.0,
\* a complex log (imaginary part pi) for a negative number, nan for nan
Log(d) ==
    [re |-> IF d = "zero" THEN "ninf" ELSE IF d = "nan" THEN "nan" ELSE "fin",
     cplx |-> d = "neg"]

\* -b
Neg(b) ==
    [re |-> IF b.re = "pinf" THEN "ninf" ELSE IF b.re = "ninf" THEN "pinf" ELSE b.re,
     cplx |-> b.cplx]

\* a + b: inf + (-inf) and anything with nan are nan
Add(a, b) ==
    [re |-> IF a.re = "nan" \/ b.re = "nan" THEN "nan"
            ELSE IF a.re = "fin" THEN b.re
            ELSE IF b.re = "fin" THEN a.re
            ELSE IF a.re = b.re THEN a.re
            ELSE "nan",
     cplx |-> a.cplx \/ b.cplx]

\* a - b
Sub(a, b) == Add(a, Neg(b))

\* np.abs of a (possibly complex) value with a finite imaginary part
Abs(v) == IF v.re = "fin" THEN "finite" ELSE IF v.re = "nan" THEN "nan" ELSE "inf"

\* gc_real[np.isinf(gc_real)] = 0.
ReplaceInf(g) == [k \in DOMAIN g |-> [c \in DOMAIN g[k] |->
                     IF g[k][c] = "inf" THEN "zero" ELSE g[k][c]]]

\* mutant: the NaN entries are left as they are
ReplaceNan_Kept(g) == g

\* gc_real[np.isnan(gc_real)] = 0.
ReplaceNan(g) == [k \in DOMAIN g |-> [c \in DOMAIN g[k] |->
                     IF g[k][c] = "nan" THEN "zero" ELSE g[k][c]]]

\* x[1::, :]
DropFirst(m) == IF m = << >> THEN << >> ELSE Tail(m)

\* one pass of the loop over pairs: the row gc[i_p, :] of the embeddings x_ and
\* y_ of the two sources, or the error the pass raises
GcRow(x_, y_, dt, rounding) ==
    LET det_yi1 == DetCov(y_, dt, rounding)
        det_yi == DetCov(DropFirst(y_), dt, rounding)
        det_yxi1 == DetCov(RowStack(y_, DropFirst(x_)), dt, rounding)
        det_yxi == DetCov(RowStack(DropFirst(y_), DropFirst(x_)), dt, rounding)
        det_xi1 == DetCov(x_, dt, rounding)
        det_xi == DetCov(DropFirst(x_), dt, rounding)
        det_xyi1 == DetCov(RowStack(x_, DropFirst(y_)), dt, rounding)
        det_xyi1b == DetCov(RowStack(x_, y_), dt, rounding)
        h_ycy == Sub(Log(det_yi1), Log(det_yi))
        h_ycx == Sub(Log(det_yxi1), Log(det_yxi))
        h_xcx == Sub(Log(det_xi1), Log(det_xi))
        h_xcy == Sub(Log(det_xyi1), Log(det_yxi))
        h_xxcyy == Sub(Log(det_xyi1b), Log(det_yxi))
    IN  IF "LinAlgError" \in {det_yi1, det_yi, det_yxi1, det_yxi,
                              det_xi1, det_xi, det_xyi1, det_xyi1b}
        THEN Raised("LinAlgError")
        ELSE Returned(<<Sub(h_ycy, h_ycx), Sub(h_xcx, h_xcy),
                        Sub(Add(h_ycx, h_xcy), h_xxcyy)>>)

covgc_time(a, dt, lag, t0, rounding) ==
    IF ~(IsInstanceInt(dt) /\ IsInstanceInt(lag) /\ IsInstanceInt(t0))
    THEN Raised("AssertionError")
    ELSE IF Ndim(a) # 2 THEN Raised("ValueError")      \* n_so, n_ti = x.shape
    ELSE LET n_so == Shape0(a)
             n_ti == Shape1(a)
             ind_t == IndT(dt.val, lag.val, t0.val)
             pairs == ColumnStack(TriuIndices(n_so, 1))
             n_pairs == Len(pairs)
             \* the pass of pair i_p (1-based here)
             pass == Evaluated([i_p \in 1..n_pairs |->
                        IF \E k \in 1..Len(ind_t) : ~InRange(ind_t[k], n_ti)
                        THEN Raised("IndexError")
                        ELSE GcRow(Reshape(Take(a[pairs[i_p][1]], ind_t, n_ti),
                                           lag.val + 1, dt.val),
                                   Reshape(Take(a[pairs[i_p][2]], ind_t, n_ti),
                                           lag.val + 1, dt.val),
                                   dt.val, rounding)])
             failed == {i_p \in 1..n_pairs : pass[i_p].status # "ok"}
         IN  IF failed # {} THEN pass[Min(failed)]
             ELSE LET gc == [i_p \in 1..n_pairs |-> pass[i_p].val]
                      gc_abs == [i_p \in 1..n_pairs |-> [c \in 1..3 |-> Abs(gc[i_p][c])]]
                      gc_real == ReplaceNan(ReplaceInf(gc_abs))
                  IN  Returned([gc_real |-> gc_real, pairs |-> pairs])

\* the length of the last axis of the caller's array
Samples(a) == IF Ndim(a) = 2 THEN Shape1(a) ELSE Len(a)

\* the types a caller passes for dt, lag and t0
ArgTypes == {"int", "float", "numpy.int64"}

\* the call covgc_time(x, dt, lag, t0) with a narrow window (dt <= 2) or one of
\* the two widest (maxdt - 1, maxdt), lag <= maxlag, and the window ending at
\* the last sample, one past it, or at sample dt (the lagged windows then
\* start before the first sample)
CovgcTimeOf(maxdt, maxlag) ==
    /\ pc = "call"
    /\ \E dt \in (0..maxdt) \ (3..(maxdt - 2)), lag \in 0..maxlag,
          bad \in {{}, {"dt"}, {"lag"}, {"t0"}, {"dt", "lag", "t0"}},
          ty \in ArgTypes \ {"int"},
          rounding \in {"zero", "pos", "neg"} :
          \E t0 \in {dt, Samples(x), Samples(x) + 1} :
             LET type(name) == IF name \in bad THEN ty ELSE "int"
                 a == [dt |-> Num(type("dt"), dt), lag |-> Num(type("lag"), lag),
                       t0 |-> Num(type("t0"), t0)]
             IN  /\ bad = {} => ty = "float"
                 /\ bad # {} => rounding = "zero"
                 /\ args' = [fn |-> "covgc_time", dt |-> a.dt, lag |-> a.lag,
                             t0 |-> a.t0, rounding |-> rounding]
                 /\ ret' = covgc_time(x, a.dt, a.lag, a.t0, rounding)
    /\ pc' = "covgc_time"
    /\ UNCHANGED <<x, mask, df, mats, obj, jobs, da>>

CovgcTime == CovgcTimeOf(MaxDt, MaxLag)

\* the recorded signals: silence, and a pulse at the square or at the
\* triangular sample numbers
Signals == {"flat", "square", "triangular"}
Signal(kind, t) ==
    IF kind = "square" THEN (IF \E k \in 0..t : k * k = t THEN 1 ELSE 0)
    ELSE IF kind = "triangular" THEN (IF \E k \in 0..t : k * (k + 1) = 2 * t THEN 1 ELSE 0)
    ELSE 0

InitGc ==
    /\ pc = "call"
    /\ HarnessIdle
    /\ args = NoCall
    /\ \E n_so \in 0..GcN : \E kinds \in [0..(n_so - 1) -> Signals] :
          x = [s \in 0..(n_so - 1) |-> [t \in 0..(TiN - 1) |-> Signal(kinds[s], t)]]
    /\ ret = None
    /\ mask = NoMask
    /\ df = NoTable
    /\ mats = << >>

NextGc == CovgcTime

SpecGc == InitGc /\ [][NextGc]_vars

\* ---------------------------------------------------------------------------
\* Calls of the numerical functions on arrays of any shape
\* ---------------------------------------------------------------------------
\* the (r, c) arrays and the 1-D arrays of n >= 1 entries; the calls are made
\* on arrays filled with one value
RectArrays(r, c, vals) == [0..(r - 1) -> [0..(c - 1) -> vals]]
VectorArrays(n, vals) == [1..n -> vals]

InitArgs ==
    /\ pc = "call"
    /\ HarnessIdle
    /\ args = NoCall
    /\ \E v \in Vals :
          x \in UNION {RectArrays(r, c, {v}) : r \in 0..ArgN, c \in 0..ArgN}
                \cup UNION {VectorArrays(n, {v}) : n \in 1..ArgN}
    /\ df = Table(<<"roi">>, [roi |-> [k \in 0..(Shape0(x) - 1) |-> 1]])
    /\ ret = None
    /\ mask = NoMask
    /\ mats = << >>

NextArgs ==
    \/ GetPairsOf(0..ArgN)
    \/ RavelConnect
    \/ Symmetrize
    \/ RemoveSiteContactOf({Label_A1A2, Label_A2A3})
    \/ AnatBasedReorderOf({"gyrus"})
    \/ AnatBasedMeanOf({"gyrus"})
    \/ CovgcTimeOf(ArgN, ArgN)

SpecArgs == InitArgs /\ [][NextArgs]_vars

\* ---------------------------------------------------------------------------
\* Calls one after the other on the same caller objects
\* ---------------------------------------------------------------------------
\* the caller takes the result and is ready for the next call
Return ==
    /\ pc # "call"
    /\ jobs = NoJobs
    /\ {i \in DOMAIN x : \E j \in DOMAIN x[i] : x[i][j] > MaxEntry} = {}
    /\ pc' = "call"
    /\ args' = NoCall
    /\ ret' = None
    /\ UNCHANGED <<x, mask, df, mats, obj, jobs, da>>

InitFrame ==
    /\ pc = "call"
    /\ HarnessIdle
    /\ args = NoCall
    /\ \E n \in 1..FrameN :
          /\ x \in AnatArrays(n)
          /\ mask \in AnatMasks(n)
          /\ \E roi \in [0..(n - 1) -> 1..NLabels] : df = Table(<<"roi">>, [roi |-> roi])
    /\ ret = None
    /\ mats = <<Array(Full(1, 1), NoMask), Array(Full(1, 0), MaskAt(1, 0, 0))>>

NextFrame ==
    \/ GetPairsOf(0..FrameN)
    \/ RemoveSiteContactOf({Label_A1A2, Label_A2A3})
    \/ RavelConnect
    \/ UnravelConnect
    \/ Symmetrize
    \/ ConcatConnect
    \/ AnatBasedReorder
    \/ AnatBasedMean
    \/ Return

SpecFrame == InitFrame /\ [][NextFrame]_vars

\* ---------------------------------------------------------------------------
\* classification.py: the classify object, its selectors, fit and stat
\* ---------------------------------------------------------------------------
\* A str is the sequence of its characters, so that lower() and find() are
\* computed on it; a selector is a str or an int.
PyStr(chars) == [type |-> "str", chars |-> chars, int |-> 0]
PyInt(k) == [type |-> "int", chars |-> << >>, int |-> k]

S_lda == <<"l", "d", "a">>
S_svm == <<"s", "v", "m">>
S_linearsvm == <<"l", "i", "n", "e", "a", "r", "s", "v", "m">>
S_nusvm == <<"n", "u", "s", "v", "m">>
S_nb == <<"n", "b">>
S_knn == <<"k", "n", "n">>
S_rf == <<"r", "f">>
S_lr == <<"l", "r">>
S_qda == <<"q", "d", "a">>
S_LDA == <<"L", "D", "A">>
S_Svm == <<"S", "v", "m">>
S_tree == <<"t", "r", "e", "e">>
S_skfold == <<"s", "k", "f", "o", "l", "d">>
S_kfold == <<"k", "f", "o", "l", "d">>
S_sss == <<"s", "s", "s">>
S_ss == <<"s", "s">>
S_SKFold == <<"S", "K", "F", "o", "l", "d">>
S_loo == <<"l", "o", "o">>
S_bino == <<"b", "i", "n", "o">>
S_label_rnd == <<"l", "a", "b", "e", "l", "_", "r", "n", "d">>
S_full_rnd == <<"f", "u", "l", "l", "_", "r", "n", "d">>
S_intra_rnd == <<"i", "n", "t", "r", "a", "_", "r", "n", "d">>
S__rnd == <<"_", "r", "n", "d">>
S_foo_rnd == <<"f", "o", "o", "_", "r", "n", "d">>
S_LABEL_RND == <<"L", "A", "B", "E", "L", "_", "R", "N", "D">>
S_Bino == <<"B", "i", "n", "o">>
S_anova == <<"a", "n", "o", "v", "a">>
S_sf == <<"s", "f">>
S_mf == <<"m", "f">>

UpperCase == <<"A", "B", "C", "D", "E", "F", "G", "H", "I", "J", "K", "L", "M", "N", "O", "P", "Q", "R", "S", "T", "U", "V", "W", "X", "Y", "Z">>
LowerCase == <<"a", "b", "c", "d", "e", "f", "g", "h", "i", "j", "k", "l", "m", "n", "o", "p", "q", "r", "s", "t", "u", "v", "w", "x", "y", "z">>

\* str.lower()
LowerChar(c) ==
    IF \E k \in 1..Len(UpperCase) : UpperCase[k] = c
    THEN LowerCase[CHOOSE k \in 1..Len(UpperCase) : UpperCase[k] = c]
    ELSE c
Lower(s) == [k \in 1..Len(s) |-> LowerChar(s[k])]

\* str.find(sub): the lowest index at which sub starts, -1 without one
Find(s, sub) ==
    LET starts == {k \in 0..(Len(s) - Len(sub)) : \A d \in 1..Len(sub) : s[k + d] = sub[d]}
    IN  IF starts = {} THEN -1 ELSE Min(starts)

\* the classifiers of defClf, each at the position of its integer code plus one
ClfNames == <<S_lda, S_svm, S_linearsvm, S_nusvm, S_nb, S_knn, S_rf, S_lr, S_qda>>

\* defClf.__new__: a name is lower-cased, a name or a code selects a
\* classifier, anything else is a ValueError
defClf(y, clf) ==
    LET found == {k \in 1..Len(ClfNames) :
                     \/ clf.type = "str" /\ Lower(clf.chars) = ClfNames[k]
                     \/ clf.type = "int" /\ clf.int = k - 1}
    IN  IF found = {} THEN Raised("ValueError")
        ELSE Returned([shStr |-> ClfNames[CHOOSE k \in found : TRUE]])

\* the cross-validations of _define
CvNames == <<S_skfold, S_kfold, S_sss, S_ss>>

\* The train and test indices of split j. sklearn draws them from
\* random_state; here trial i is tested in the splits j with
\* (i + rndstate) % n_folds = j % n_folds and trained on in the others.
Split(n_trials, n_folds, rndstate, j) ==
    LET trials == Evaluated([i \in 1..n_trials |-> i - 1])
        InTest(i) == (i + rndstate) % n_folds = j % n_folds
        InTrain(i) == ~InTest(i)
    IN  [train |-> SelectSeq(trials, InTrain), test |-> SelectSeq(trials, InTest)]

\* _define: one cross-validation object for one repetition; ss makes rep
\* splits, the others n_folds. The k-fold classes of sklearn refuse more
\* folds than trials.
_define(y, cvtype, n_folds, rndstate, rep) ==
    IF cvtype \notin Range(CvNames) THEN Raised("ValueError")
    ELSE IF (cvtype = S_skfold \/ cvtype = S_kfold) /\ n_folds > Len(y)
    THEN Raised("ValueError")
    ELSE LET n_iter == IF cvtype = S_ss THEN rep ELSE n_folds
         IN  Returned([cvtype |-> cvtype, random_state |-> rndstate,
                       splits |-> Evaluated([j \in 1..n_iter |->
                                      Split(Len(y), n_folds, rndstate, j)])])

\* defCv.__new__: the list of the rep cross-validation objects, seeded 0..rep-1
defCv(y, cvtype, n_folds, rep) ==
    LET cvs == [k \in 1..rep |-> _define(y, cvtype, n_folds, k - 1, rep)]
    IN  IF \E k \in 1..rep : cvs[k].status # "ok"
        THEN cvs[Min({k \in 1..rep : cvs[k].status # "ok"})]
        ELSE Returned(Evaluated([k \in 1..rep |-> cvs[k].val]))

\* classify.__init__: clf is an int or a str and cvtype a str, so both are
\* built by defClf and defCv
classify(y, clf, cvtype, cvArg) ==
    LET c == defClf(y, clf)
        cv == defCv(y, cvtype.chars, cvArg.n_folds, cvArg.rep)
    IN  IF c.status # "ok" THEN c
        ELSE IF cv.status # "ok" THEN cv
        ELSE Returned([made |-> TRUE, y |-> y, clf |-> c.val, cv |-> cv.val])

\* CPython keeps one object for each int of -5..256 and makes a new object
\* for any other int each time one is computed
SmallInts == (-5)..256
\* a is not b, for two ints just computed
IsNot(a, b) == ~(a = b /\ a \in SmallInts)

\* n.matrix(x): a 2-D copy, a 1-D array becoming one row
Matrix(a) ==
    IF Ndim(a) = 1 THEN [i \in 0..0 |-> [j \in 0..(Len(a) - 1) |-> a[j + 1]]] ELSE a
\* n.array(x[:, k]): column k as an array of shape (rows, 1)
Column(m, k) == [i \in 0..(Shape0(m) - 1) |-> [j \in 0..0 |-> m[i][k]]]

\* checkXY: the list of the features of x and the label vector
checkXY(xa, y, x_col) ==
    LET m0 == Matrix(xa)
        m == IF IsNot(Shape0(m0), Len(y)) THEN Transpose(m0) ELSE m0
    IN  [x |-> IF x_col = S_mf THEN <<m>>
               ELSE IF x_col = S_sf
                    THEN Evaluated([k \in 1..Shape1(m) |-> Column(m, k - 1)])
                    ELSE Evaluated([i \in 1..Shape0(m) |-> [r \in 0..0 |-> m[i - 1]]]),
         y |-> y]

\* _cvscore: the splits are taken one after the other, the classifier is
\* fitted on the train rows and predicts the test rows; the accuracy is kept
\* as the record of what it was computed from. Indexing past the rows of x
\* is an IndexError.
_cvscore(xf, y, clf, cvS) ==
    LET n_splits == Len(cvS.splits)
        used == UNION {Range(cvS.splits[k].train) \cup Range(cvS.splits[k].test) :
                          k \in 1..n_splits}
    IN  IF \E i \in used : i >= Shape0(xf) \/ i >= Len(y) THEN Raised("IndexError")
        ELSE Returned([x |-> xf, y |-> y, clf |-> clf.shStr,
                       cvtype |-> cvS.cvtype, random_state |-> cvS.random_state,
                       predictions |-> Evaluated([k \in 1..n_splits |->
                           [fit |-> cvS.splits[k].train,
                            predict |-> cvS.splits[k].test]])])

\* a job of a parallel map that has not run yet
Pending == [status |-> "pending"]

\* fit, up to the parallel map: the features of checkXY, and one job for
\* each feature and each repetition, none of them run yet
FitJobs(self, xa, xcol) ==
    LET xy == checkXY(xa, self.y, xcol)
    IN  [running |-> TRUE, x |-> xy.x, y |-> xy.y, clf |-> self.clf, cv |-> self.cv,
         da |-> [f \in 1..Len(xy.x) |-> [r \in 1..Len(self.cv) |-> Pending]]]

\* n.array(da): the scores of the jobs, placed by feature and repetition
FitResult(j) ==
    [f \in 0..(Len(j.x) - 1) |-> [r \in 0..(Len(j.cv) - 1) |-> j.da[f + 1][r + 1].val]]

\* rndstate.permutation(y) and rndstate.permutation(x): a shuffled copy,
\* entry i of the copy being entry p[i] of the array
Permute(y, p) == [i \in 1..Len(y) |-> y[p[i - 1] + 1]]
PermuteRows(xf, p) == [i \in 0..(Shape0(xf) - 1) |-> xf[p[i]]]

\* permIntraClass: n_perm copies of x, the rows shuffled among the trials of
\* the same class
permIntraClass(xc, yc, n_perm, perms) ==
    [k \in 1..n_perm |->
        IF \A i \in 1..Len(yc) : yc[perms[k][i - 1] + 1] = yc[i]
        THEN PermuteRows(xc, perms[k]) ELSE xc]

\* the list a parallel map returns, or the exception of its first failing job
Gather(results) ==
    IF \E k \in DOMAIN results : results[k].status # "ok"
    THEN results[Min({k \in DOMAIN results : results[k].status # "ok"})]
    ELSE Returned(Evaluated([k \in DOMAIN results |-> results[k].val]))

\* rndstate.shuffle(y) in place of rndstate.permutation(y): the label vector
\* given to the worker is itself shuffled
_classifyPerm_ShuffleInPlace(xf, y, clf, cv, method, n_perm, perms) ==
    IF method = S_label_rnd
    THEN [res |-> Gather([k \in 1..n_perm |-> _cvscore(xf, Permute(y, perms[k]), clf, cv)]),
          y |-> IF n_perm = 0 THEN y ELSE Permute(y, perms[n_perm])]
    ELSE IF method = S_full_rnd
    THEN [res |-> Gather([k \in 1..n_perm |-> _cvscore(PermuteRows(xf, perms[k]), y, clf, cv)]),
          y |-> y]
    ELSE IF method = S_intra_rnd
    THEN LET xPerm == permIntraClass(xf, y, n_perm, perms)
         IN  [res |-> Gather([k \in 1..n_perm |-> _cvscore(xPerm[k], y, clf, cv)]),
              y |-> y]
    ELSE [res |-> ReturnedNone, y |-> y]

\* _classifyPerm: the n_perm accuracies of one feature under the method, and
\* the label vector it was given as it is afterwards. The label vector and
\* the feature are only read: permutation() returns a copy and
\* permIntraClass is given copies. No branch is taken for any other method
\* and the function ends without a return statement.
_classifyPerm(xf, y, clf, cv, method, n_perm, perms) ==
    IF method = S_label_rnd
    THEN [res |-> Gather([k \in 1..n_perm |-> _cvscore(xf, Permute(y, perms[k]), clf, cv)]),
          y |-> y]
    ELSE IF method = S_full_rnd
    THEN [res |-> Gather([k \in 1..n_perm |-> _cvscore(PermuteRows(xf, perms[k]), y, clf, cv)]),
          y |-> y]
    ELSE IF method = S_intra_rnd
    THEN LET xPerm == permIntraClass(xf, y, n_perm, perms)
         IN  [res |-> Gather([k \in 1..n_perm |-> _cvscore(xPerm[k], y, clf, cv)]),
              y |-> y]
    ELSE [res |-> ReturnedNone, y |-> y]

\* binostatinv: one p-value for each row of da, from the labels and the
\* accuracies of the row; the labels are only read
binostatinv(y, da_) == [f \in 1..Shape0(da_) |-> [labels |-> y, accuracies |-> da_[f - 1]]]

\* n.array(daPerm): the rows the workers returned, an array of objects when
\* they returned None
NArray(rows) ==
    IF \A f \in DOMAIN rows : rows[f].status = "ok"
    THEN [dtype |-> "float64", val |-> Evaluated([f \in DOMAIN rows |-> rows[f].val])]
    ELSE [dtype |-> "object", val |-> Evaluated([f \in DOMAIN rows |-> None])]

\* perm2pval: one p-value for each feature, from its observed accuracy and
\* the accuracies of its permutations. What it does when it is not given one
\* row of accuracies for each observed accuracy is not described: it raises
\* or it returns something, as outcome says.
perm2pval(observed, daPerm, outcome) ==
    IF daPerm.dtype = "float64" /\ Len(daPerm.val) = Len(observed)
    THEN Returned([f \in 1..Len(observed) |->
                      [observed |-> observed[f], permuted |-> daPerm.val[f]]])
    ELSE IF outcome = "raises" THEN Raised("TypeError")
    ELSE Returned(<< >>)

\* classify.stat: the p-values and the accuracies of the permutations, and
\* self.y as it is afterwards (checkXY gives the workers a view of self.y and
\* a copy of x)
stat(self, xa, da_, method, n_perm, perms, outcome) ==
    LET xcol == IF Shape0(xa) = Shape0(da_) THEN S_sf ELSE S_mf
    IN  IF method = S_bino
        THEN [res |-> Returned([pvalue |-> binostatinv(self.y, da_),
                                daPerm |-> [dtype |-> "float64", val |-> << >>]]),
              y |-> self.y]
        ELSE IF Find(Lower(method), S__rnd) + 1 # 0
        THEN LET xy == checkXY(xa, self.y, xcol)
                 nfeat == Len(xy.x)
                 rows == [f \in 1..nfeat |->
                             _classifyPerm(xy.x[f], xy.y, self.clf, self.cv[1],
                                           method, n_perm, perms)]
                 failed == {f \in 1..nfeat : rows[f].res.status \notin {"ok", "none"}}
                 daPerm == NArray([f \in 1..nfeat |-> rows[f].res])
                 observed == [f \in 1..Shape0(da_) |-> [mean |-> da_[f - 1]]]
                 pvalue == perm2pval(observed, daPerm, outcome)
             IN  [res |-> IF Len(self.cv) = 0 THEN Raised("IndexError")
                          ELSE IF failed # {} THEN rows[Min(failed)].res
                          ELSE IF pvalue.status # "ok" THEN pvalue
                          ELSE Returned([pvalue |-> pvalue.val, daPerm |-> daPerm]),
                  y |-> IF nfeat = 0 THEN self.y ELSE rows[nfeat].y]
        ELSE [res |-> Raised("ValueError"), y |-> self.y]

\* the feature arrays of the caller: n_trials rows and n_feat columns
FeatureArray(n_trials, n_feat) ==
    [i \in 0..(n_trials - 1) |-> [j \in 0..(n_feat - 1) |-> (i * (j + 1)) % 3]]
\* the label vectors of two classes
LabelVectors(n_trials) ==
    {[i \in 1..n_trials |-> (i - 1) % 2], [i \in 1..n_trials |-> IF i = 1 THEN 0 ELSE 1]}
\* numbers of trials: few, and more than the ints CPython keeps
TrialCounts == {2, 3, Max(SmallInts) + 1}

\* the caller builds the classify object on a label vector of one label for
\* each row of x; Clfs and Cvtypes list the selectors it chooses from
ClassifyOf(Clfs, Cvtypes, Reps) ==
    /\ pc = "call"
    /\ ~obj.made
    /\ \E y \in LabelVectors(Shape0(x)), c \in 1..Len(Clfs), t \in 1..Len(Cvtypes),
          rep \in Reps, n_folds \in {MaxFolds} :
          LET clf == Clfs[c]
              cvtype == Cvtypes[t]
              cvArg == [rep |-> rep, n_folds |-> n_folds]
              self == classify(y, clf, PyStr(cvtype), cvArg)
          IN  /\ args' = [fn |-> "classify", clf |-> clf, cvtype |-> cvtype, cvArg |-> cvArg]
              /\ ret' = IF self.status = "ok" THEN ReturnedNone ELSE self
              /\ obj' = IF self.status = "ok" THEN self.val ELSE obj
    /\ pc' = "classify"
    /\ UNCHANGED <<x, mask, df, mats, jobs, da>>

\* fit is called and hands its jobs to the parallel map
Fit ==
    /\ pc = "call"
    /\ obj.made
    /\ \E mf \in BOOLEAN :
          LET xcol == IF mf THEN S_mf ELSE S_sf
          IN  /\ args' = [fn |-> "fit", xcol |-> xcol]
              /\ jobs' = FitJobs(obj, x, xcol)
    /\ pc' = "Parallel"
    /\ ret' = None
    /\ UNCHANGED <<x, mask, df, mats, obj, da>>

\* a worker runs one job, whichever: the accuracy of one feature under one
\* repetition. A job that raises ends the parallel map and fit with it.
RunJob ==
    /\ pc = "Parallel"
    /\ \E f \in 1..Len(jobs.x), r \in 1..Len(jobs.cv) :
          /\ jobs.da[f][r] = Pending
          /\ LET score == _cvscore(jobs.x[f], jobs.y, jobs.clf, jobs.cv[r])
             IN  IF score.status = "ok"
                 THEN /\ jobs' = [jobs EXCEPT !.da[f][r] = score]
                      /\ UNCHANGED <<pc, ret>>
                 ELSE /\ jobs' = NoJobs
                      /\ pc' = "fit"
                      /\ ret' = score
    /\ UNCHANGED <<args, x, mask, df, mats, obj, da>>

\* every job has run: fit returns the array of the accuracies, which the
\* caller keeps together with the xcol it was made with
FitReturn ==
    /\ pc = "Parallel"
    /\ \A f \in 1..Len(jobs.x), r \in 1..Len(jobs.cv) : jobs.da[f][r] # Pending
    /\ ret' = Returned(FitResult(jobs))
    /\ da' = [held |-> TRUE, val |-> FitResult(jobs), xcol |-> args.xcol]
    /\ jobs' = NoJobs
    /\ pc' = "fit"
    /\ UNCHANGED <<args, x, mask, df, mats, obj>>

\* the permutations the random state draws
Shuffles(n_trials) ==
    {[i \in 0..(n_trials - 1) |-> i],
     [i \in 0..(n_trials - 1) |-> (n_trials - 1) - i],
     [i \in 0..(n_trials - 1) |-> (i + 1) % n_trials]}

\* stat is called on the array fit was called on and the accuracies kept;
\* Methods lists the methods the caller chooses from
StatOf(Methods, NPerms) ==
    /\ pc = "call"
    /\ obj.made
    /\ da.held
    /\ \E m \in 1..Len(Methods), n_perm \in NPerms, outcome \in {"raises", "returns"} :
          \E perms \in [1..n_perm -> Shuffles(Len(obj.y))] :
             LET method == Methods[m]
                 r == stat(obj, x, da.val, method, n_perm, perms, outcome)
             IN  /\ args' = [fn |-> "stat", method |-> method, n_perm |-> n_perm]
                 /\ ret' = r.res
                 /\ obj' = [obj EXCEPT !.y = r.y]
    /\ pc' = "stat"
    /\ UNCHANGED <<x, mask, df, mats, jobs, da>>

Stat == StatOf(<<S_bino, S_label_rnd, S_full_rnd, S_intra_rnd>>, 0..MaxPerm)

InitHarness ==
    /\ pc = "call"
    /\ args = NoCall
    /\ ret = None
    /\ \E n_trials \in TrialCounts, n_feat \in 1..MaxFeat :
          x = FeatureArray(n_trials, n_feat)
    /\ mask = NoMask
    /\ df = NoTable
    /\ mats = << >>
    /\ HarnessIdle

NextHarness ==
    \/ ClassifyOf(<<PyStr(S_lda), PyInt(9)>>, <<S_skfold, S_ss, S_loo>>, 1..MaxRep)
    \/ Fit
    \/ RunJob
    \/ FitReturn
    \/ Stat
    \/ Return

SpecHarness == InitHarness /\ [][NextHarness]_vars

\* Every selector, listed or not, on the smallest arrays
ClfSelectors ==
    [k \in 1..Len(ClfNames) |-> PyStr(ClfNames[k])]
    \o [k \in 1..(Len(ClfNames) + 2) |-> PyInt(k - 2)]
    \o <<PyStr(S_LDA), PyStr(S_Svm), PyStr(S_tree)>>
CvSelectors == CvNames \o <<S_SKFold, S_loo>>
StatMethods == <<S_bino, S_label_rnd, S_full_rnd, S_intra_rnd>>
MethodSelectors == StatMethods \o <<S_foo_rnd, S_LABEL_RND, S_Bino, S_anova>>

InitSelect == InitHarness /\ Shape0(x) \in SmallInts

NextSelect ==
    \/ ClassifyOf(ClfSelectors, CvSelectors, 1..1)
    \/ Fit
    \/ RunJob
    \/ FitReturn
    \/ StatOf(MethodSelectors, 1..1)
    \/ Return

SpecSelect == InitSelect /\ [][NextSelect]_vars

\* ---------------------------------------------------------------------------
\* Claims on get_pairs
\* ---------------------------------------------------------------------------
PairsDone == pc = "get_pairs" /\ ret.status = "ok"

\* rows of the result as (row, col) pairs whatever as_array is
AsPairSeq(r, as_array) == IF as_array THEN r ELSE ColumnStack(r)

\* C1: for n >= 2, get_pairs(n, 'upper') has n(n-1)/2 distinct rows (i, j)
\* with 0 <= i < j < n, and the set of rows of get_pairs(n, 'lower') is the
\* set of transposed rows of get_pairs(n, 'upper').
C1_UpperCountAndLowerTranspose ==
    (PairsDone /\ args.n >= 2) =>
        LET n == args.n
            rows == AsPairSeq(ret.val, args.as_array)
            up == get_pairs(n, "upper", TRUE).val
        IN  /\ args.part = "upper" =>
                /\ 2 * Len(rows) = n * (n - 1)
                /\ Cardinality(Range(rows)) = Len(rows)
                /\ \A k \in 1..Len(rows) :
                       0 <= rows[k][1] /\ rows[k][1] < rows[k][2] /\ rows[k][2] < n
            /\ args.part = "lower" =>
                Range(rows) = {<<p[2], p[1]>> : p \in Range(up)}

C1_Witness ==
    PairsDone /\ args.n = 4 /\ args.part = "lower" /\ args.as_array
    /\ Len(ret.val) = 6 /\ <<3, 1>> \in Range(ret.val)

\* C2: for n >= 1, get_pairs(n, 'both') is get_pairs(n, 'upper') followed by
\* get_pairs(n, 'lower') (n(n-1) rows, none on the diagonal, none twice), and
\* for every part the as_array=False result is two parallel index sequences
\* that list the rows of the as_array=True result in the same order.
C2_BothIsUpperThenLower ==
    (PairsDone /\ args.n >= 1) =>
        LET n == args.n
            rows == AsPairSeq(ret.val, args.as_array)
            up == get_pairs(n, "upper", TRUE).val
            lo == get_pairs(n, "lower", TRUE).val
        IN  /\ args.part = "both" =>
                /\ rows = up \o lo
                /\ Len(rows) = n * (n - 1)
                /\ \A k \in 1..Len(rows) : rows[k][1] # rows[k][2]
                /\ Cardinality(Range(rows)) = Len(rows)
            /\ ~args.as_array =>
                /\ Len(ret.val) = 2
                /\ Len(ret.val[1]) = Len(ret.val[2])
                /\ Len(ret.val[1]) = Len(get_pairs(n, args.part, TRUE).val)
                /\ \A k \in 1..Len(ret.val[1]) :
                       <<ret.val[1][k], ret.val[2][k]>>
                           = get_pairs(n, args.part, TRUE).val[k]

C2_Witness ==
    PairsDone /\ args.n = 3 /\ args.part = "both" /\ ~args.as_array
    /\ ret.val = << <<0, 0, 1, 1, 2, 2>>, <<1, 2, 2, 0, 0, 1>> >>

\* ---------------------------------------------------------------------------
\* Claims on ravel_connect / unravel_connect / symmetrize
\* ---------------------------------------------------------------------------
\* the positions get_pairs(n, part) selects
Selected(part, i, j) ==
    \/ part \in {"upper", "both"} /\ i < j
    \/ part \in {"lower", "both"} /\ i > j

\* C3: unravel_connect(ravel_connect(A, part), n, part) equals A at every
\* position get_pairs(n, part) selects and is zero at every other position.
C3_RoundTrip ==
    (pc = "unravel_connect" /\ args.n_sites = Shape0(x)) =>
        /\ ret.status = "ok"
        /\ Shape0(ret.val) = Shape0(x) /\ Shape1(ret.val) = Shape0(x)
        /\ \A i, j \in DOMAIN x :
               ret.val[i][j] = IF Selected(args.part, i, j) THEN x[i][j] ELSE 0

C3_Witness ==
    /\ pc = "unravel_connect" /\ args.n_sites = 3 /\ Shape0(x) = 3
    /\ args.part = "lower"
    /\ \A i, j \in DOMAIN x : x[i][j] = 1
    /\ ret.status = "ok"
    /\ ret.val[2][0] = 1 /\ ret.val[0][2] = 0 /\ ret.val[1][1] = 0

\* C4: S = symmetrize(A) is symmetric with A's diagonal for every square A,
\* and when A's strict lower triangle is zero, S[j][i] = A[i][j] for i < j.
C4_Symmetrize ==
    pc = "symmetrize" =>
        /\ ret.status = "ok"
        /\ \A i, j \in DOMAIN x : ret.val[i][j] = ret.val[j][i]
        /\ \A i \in DOMAIN x : ret.val[i][i] = x[i][i]
        /\ (\A i, j \in DOMAIN x : i > j => x[i][j] = 0) =>
               \A i, j \in DOMAIN x : i < j => ret.val[j][i] = x[i][j]

C4_Witness ==
    /\ pc = "symmetrize" /\ Shape0(x) = 3
    /\ x[0][1] = 1 /\ x[1][0] = 0 /\ x[2][0] = 1 /\ x[0][2] = 1 /\ x[1][1] = 1
    /\ ret.status = "ok"
    /\ ret.val[1][0] = 1 /\ ret.val[2][0] = 2 /\ ret.val[1][1] = 1

\* ---------------------------------------------------------------------------
\* Claims on remove_site_contact
\* ---------------------------------------------------------------------------
ContactDone == pc = "remove_site_contact"

\* the label is letters followed by one contact number
SingleContactLabel(k) ==
    /\ Len(Findall(FALSE, k)) = 1 /\ Len(Findall(TRUE, k)) = 1
    /\ k = Findall(FALSE, k)[1] \o Findall(TRUE, k)[1]

\* the label parses into (letter-prefix, d1, d2)
TwoContactLabel(k) == Len(Findall(FALSE, k)) >= 1 /\ Len(Findall(TRUE, k)) = 2

\* (L, d1, d2) of a label with two contact numbers
Parsed(k) == <<Findall(FALSE, k)[1], ParseInt(Findall(TRUE, k)[1]),
               ParseInt(Findall(TRUE, k)[2])>>

\* C5: for labels that are letters followed by a single contact number,
\* mode='soft' returns a mask in which, for i < j, electrode i excludes
\* electrode j exactly when j is the next contact of the same shaft.
C5_SoftSingleContactLabels ==
    (/\ ContactDone
     /\ args.mode.s = "soft"
     /\ Len(args.channels) >= 2
     /\ \A k \in 1..Len(args.channels) : SingleContactLabel(args.channels[k])) =>
        /\ ret.status = "ok"
        /\ \A i, j \in 0..(Len(args.channels) - 1) :
               i < j =>
                   ret.val[i][j] =
                       LET ki == args.channels[i + 1]
                           kj == args.channels[j + 1]
                       IN  /\ Findall(FALSE, kj)[1] = Findall(FALSE, ki)[1]
                           /\ ParseInt(Findall(TRUE, kj)[1])
                                  = ParseInt(Findall(TRUE, ki)[1]) + 1

\* adj(i, j) as the claim C6 defines it (i, j 0-based)
ClaimAdj(channels, mode, i, j) ==
    LET pi == Parsed(channels[i + 1])
        pj == Parsed(channels[j + 1])
    IN  IF mode = "soft" THEN pj = <<pi[1], pi[2] + 1, pi[3] + 1>>
        ELSE pj[1] = pi[1]

\* C6: for labels that parse into (L, d1, d2), either mode and any
\* remove_lower and symmetrical: M[i][i] is true; for i < j, M[i][j] = adj(i, j);
\* for i > j, M[i][j] = remove_lower when symmetrical is false and
\* M[i][j] = (remove_lower or adj(j, i)) = M[j][i] when symmetrical is true.
C6_MaskFullyDetermined ==
    (/\ ContactDone
     /\ args.mode.s \in {"soft", "hard"}
     /\ \A k \in 1..Len(args.channels) : TwoContactLabel(args.channels[k])) =>
        /\ ret.status = "ok"
        /\ \A i, j \in 0..(Len(args.channels) - 1) :
               LET adj(a, b) == ClaimAdj(args.channels, args.mode.s, a, b)
               IN  /\ i = j => ret.val[i][j]
                   /\ i < j => ret.val[i][j] = adj(i, j)
                   /\ (i > j /\ ~args.symmetrical) => ret.val[i][j] = args.remove_lower
                   /\ (i > j /\ args.symmetrical) =>
                          /\ ret.val[i][j] = (args.remove_lower \/ adj(j, i))
                          /\ ret.val[i][j] = ret.val[j][i]

\* ---------------------------------------------------------------------------
\* Claims on concat_connect
\* ---------------------------------------------------------------------------
\* n1 + ... + n(t-1): first row of block t
BlockStart(t) == SumSeq([k \in 1..(t - 1) |-> Shape0(mats[k].data)])

FirstRow(column, l) == Min({k \in DOMAIN column : column[k] = l})

\* the labels of a column by increasing row of first appearance
FirstAppearance(column) ==
    [g \in 1..Cardinality(Range(column)) |->
        CHOOSE l \in Range(column) :
            Cardinality({o \in Range(column) : FirstRow(column, o) < FirstRow(column, l)})
                = g - 1]

\* C8: the index ordering of anat_based_reorder is the concatenation of the
\* per-group index lists, groups taken in order of first appearance of their
\* label in the column.
C8_ReorderFirstAppearance ==
    (pc = "anat_based_reorder" /\ ret.status = "ok") =>
        LET column == df.data[args.col]
            keys == FirstAppearance(column)
        IN  ret.val.index =
                Concatenate([g \in 1..Len(keys) |->
                                Sorted({k \in DOMAIN column : column[k] = keys[g]})])

\* C9: for an unmasked x, anat_based_mean returns the n_roi x n_roi array con,
\* groups in first-appearance order, with con[r][c] the mean over i in group
\* r, j in group c of S[i][j], S[i][i] = 0 and S[i][j] = x[min(i,j)][max(i,j)];
\* self-pairs count in the diagonal blocks and con is symmetric.
C9_BlockMeans ==
    (/\ pc = "anat_based_mean"
     /\ ~mask.on
     /\ args.col \in Range(df.names)
     /\ args.xyz.given => Shape0(args.xyz.at) = Shape0(x)) =>
        /\ ret.status = "ok"
        /\ LET column == df.data[args.col]
               keys == FirstAppearance(column)
               R == 0..(Len(keys) - 1)
               group(r) == {k \in DOMAIN column : column[k] = keys[r + 1]}
               S(i, j) == IF i = j THEN 0 ELSE x[Min({i, j})][Max({i, j})]
               total(r, c) == SumOver([p \in group(r) \X group(c) |-> S(p[1], p[2])],
                                      group(r) \X group(c))
               count(r, c) == Cardinality(group(r)) * Cardinality(group(c))
               con == ret.val.con
           IN  /\ ret.val.labels = keys
               /\ ~con.mask.on
               /\ DOMAIN con.data = R
               /\ \A r, c \in R :
                      /\ DOMAIN con.data[r] = R
                      /\ con.data[r][c].den > 0
                      \* con[r][c] = total / count
                      /\ con.data[r][c].num * count(r, c) = total(r, c) * con.data[r][c].den
                      \* con[r][c] = con[c][r]
                      /\ con.data[r][c].num * con.data[c][r].den
                             = con.data[c][r].num * con.data[r][c].den

C9_Witness ==
    /\ pc = "anat_based_mean" /\ ~mask.on /\ args.col = "roi" /\ ~args.xyz.given
    /\ Shape0(x) = 3
    /\ df.data["roi"] = [k \in 0..2 |-> IF k = 0 THEN 2 ELSE 1]
    /\ x[0][1] = 1 /\ x[0][2] = 0 /\ x[1][2] = 1 /\ x[1][0] = 0 /\ x[2][1] = 0
    /\ ret.status = "ok"
    /\ ret.val.labels = <<2, 1>>
    /\ ret.val.con.data[0][0] = Quotient(0, 1)
    /\ ret.val.con.data[0][1] = Quotient(1, 2)
    /\ ret.val.con.data[1][0] = Quotient(1, 2)
    /\ ret.val.con.data[1][1] = Quotient(2, 4)

\* ---------------------------------------------------------------------------
\* Claims on the caller's objects
\* ---------------------------------------------------------------------------
\* C10: every operation leaves every caller-supplied input unchanged: the
\* arrays, their validity masks and the annotation table hold after a call
\* the values they held before it.
C10_InputsUnchanged ==
    [][x' = x /\ mask' = mask /\ df' = df /\ mats' = mats]_vars

\* ---------------------------------------------------------------------------
\* Claims on argument validation
\* ---------------------------------------------------------------------------
\* the types of the integers
IntegerTypes == {"int", "numpy.int64"}

\* the call `a` on the array arr and the table t has an argument the
\* functions declare invalid
InvalidArgument(a, arr, t) ==
    \/ a.fn = "get_pairs" /\ a.part \notin {"upper", "lower", "both"}
    \/ a.fn \in {"symmetrize", "ravel_connect"}
       /\ (Ndim(arr) # 2 \/ Shape0(arr) # Shape1(arr))
    \/ a.fn = "remove_site_contact"
       /\ (\/ Ndim(arr) # 2
           \/ Shape0(arr) # Len(a.channels)
           \/ Shape1(arr) # Len(a.channels)
           \/ a.mode.s \notin {"soft", "hard"})
    \/ a.fn \in {"anat_based_reorder", "anat_based_mean"} /\ a.col \notin Range(t.names)
    \/ a.fn = "covgc_time"
       /\ \E k \in {a.dt, a.lag, a.t0} : k.type \notin IntegerTypes

\* C11: a call of get_pairs, symmetrize, ravel_connect, remove_site_contact,
\* anat_based_reorder, anat_based_mean or covgc_time with an invalid argument
\* raises the invalid-argument error (AssertionError), returns no result and
\* leaves the caller's array, mask, table and list as they were.
C11_InvalidArgumentsFailFast ==
    [][(pc = "call" /\ pc' # "call" /\ InvalidArgument(args', x, df)) =>
           /\ ret'.status = "AssertionError"
           /\ x' = x /\ mask' = mask /\ df' = df /\ mats' = mats]_vars

C11_Witness ==
    /\ pc = "symmetrize"
    /\ Ndim(x) = 2 /\ Shape0(x) = 1 /\ Shape1(x) = 2
    /\ ret.status = "AssertionError"

\* ---------------------------------------------------------------------------
\* Claims on covgc_time
\* ---------------------------------------------------------------------------
GcDone == pc = "covgc_time"

\* dt, lag and t0 are ints and the lagged windows lie inside the recording
WindowInside ==
    /\ args.dt.type = "int" /\ args.lag.type = "int" /\ args.t0.type = "int"
    /\ args.dt.val >= 2
    /\ args.lag.val >= 1
    /\ args.t0.val - args.dt.val - args.lag.val >= 0
    /\ args.t0.val <= Shape1(x)

\* the recording reduced to the two sources of the pair p
TwoSources(a, p) == [s \in 0..1 |-> a[p[s + 1]]]

\* the result has the pairs of get_pairs(n, 'upper') and one row of 3 values
\* per pair, row k being the row covgc_time gives for the two sources
\* pairs[k] alone
PairwiseResult ==
    /\ ret.status = "ok"
    /\ LET n == Shape0(x)
           pairs == ret.val.pairs
           gc == ret.val.gc_real
       IN  /\ pairs = get_pairs(n, "upper", TRUE).val
           /\ 2 * Len(pairs) = n * (n - 1)
           /\ \A k \in 1..Len(pairs) : pairs[k][1] < pairs[k][2]
           /\ Len(gc) = Len(pairs)
           /\ \A k \in 1..Len(pairs) :
                  /\ Len(gc[k]) = 3
                  /\ LET alone == covgc_time(TwoSources(x, pairs[k]), args.dt, args.lag,
                                             args.t0, args.rounding)
                     IN  alone.status = "ok" /\ gc[k] = alone.val.gc_real[1]

\* C12: for an input x with n sources, covgc_time returns the pair array of
\* get_pairs(n, 'upper') (n(n-1)/2 rows, each s0 < s1) and a causality matrix
\* with one row of 3 values per pair in the same order, row k depending only
\* on the samples of the two sources pairs[k].
C12_PairsAndRows == (GcDone /\ WindowInside) => PairwiseResult

\* the (lag + 1, dt) embedding of source s
Embedding(a, s, dt, lag, t0) ==
    Reshape(Take(a[s], IndT(dt, lag, t0), Shape1(a)), lag + 1, dt)

\* the three causality values of the pair p before np.abs
Causality(p) ==
    GcRow(Embedding(x, p[1], args.dt.val, args.lag.val, args.t0.val),
          Embedding(x, p[2], args.dt.val, args.lag.val, args.t0.val),
          args.dt.val, args.rounding).val

\* C13: every entry of the causality matrix covgc_time returns is a finite
\* number >= 0: the magnitude of the causality value when that is finite, and
\* exactly 0 when the magnitude is infinite or NaN; a degenerate covariance
\* determinant raises no error.
C13_FiniteNonNegative ==
    GcDone =>
        /\ ret.status = "ok" =>
              \A k \in 1..Len(ret.val.pairs) :
                  LET gc == Causality(ret.val.pairs[k])
                  IN  \A c \in 1..3 :
                         /\ ret.val.gc_real[k][c] \in {"finite", "zero"}
                         /\ ret.val.gc_real[k][c] = "zero"
                                <=> Abs(gc[c]) \in {"inf", "nan"}
        /\ (WindowInside /\ args.lag.val >= 2) => ret.status = "ok"

C13_Witness ==
    /\ GcDone /\ ret.status = "ok"
    /\ \E k1, k2 \in 1..Len(ret.val.pairs) :
          /\ \A c \in 1..3 : ret.val.gc_real[k1][c] = "finite"
          /\ Causality(ret.val.pairs[k1])[1].cplx
          /\ \A c \in 1..3 : ret.val.gc_real[k2][c] = "zero"
          /\ Abs(Causality(ret.val.pairs[k2])[1]) = "nan"

\* ---------------------------------------------------------------------------
\* Claims on the classification harness
\* ---------------------------------------------------------------------------
\* a classifier selector outside the nine names (in any letter case) and the
\* codes 0..8
InvalidClf(clf) ==
    \/ clf.type = "str" /\ Lower(clf.chars) \notin Range(ClfNames)
    \/ clf.type = "int" /\ clf.int \notin 0..(Len(ClfNames) - 1)
\* a cross-validation name outside skfold, kfold, sss, ss
InvalidCv(cvtype) == cvtype \notin Range(CvNames)
\* a stat method outside bino, label_rnd, full_rnd, intra_rnd
InvalidMethod(method) == method \notin Range(StatMethods)

\* C14: a classifier name or code outside the nine listed, a cross-validation
\* name outside the four listed and a stat method outside the four listed
\* (one that only contains '_rnd' or differs in letter case included) make
\* the call fail with a ValueError and yield no result.
C14_SelectorsFail ==
    /\ (pc = "classify" /\ (InvalidClf(args.clf) \/ InvalidCv(args.cvtype)))
          => (ret.status = "ValueError" /\ ~obj.made)
    /\ (pc = "stat" /\ InvalidMethod(args.method)) => ret.status = "ValueError"

FitDone == pc = "fit"

\* the accuracy of one feature under one cross-validation: the splits taken
\* in their order, the classifier fitted and tested on each
AccuracyOf(xf, y, clf, cvS) ==
    [x |-> xf, y |-> y, clf |-> clf.shStr,
     cvtype |-> cvS.cvtype, random_state |-> cvS.random_state,
     predictions |-> [k \in 1..Len(cvS.splits) |->
                         [fit |-> cvS.splits[k].train, predict |-> cvS.splits[k].test]]]

\* feature f of the array fit was called on: column f, or the whole array
FeatureOf(xa, xcol, f) == IF xcol = S_sf THEN Column(xa, f) ELSE xa

\* C15: in whatever order the jobs complete, fit returns an array of shape
\* (nfeat, rep), nfeat being the number of columns of x for 'sf' and 1 for
\* 'mf', whose entry (f, r) is the accuracy of feature f under repetition r,
\* the folds taken one after the other.
C15_FitShapeAndPlacement ==
    FitDone =>
        /\ ret.status = "ok"
        /\ LET nfeat == IF args.xcol = S_sf THEN Shape1(x) ELSE 1
               rep == Len(obj.cv)
           IN  /\ Shape(ret.val) = <<nfeat, rep>>
               /\ \A f \in 0..(nfeat - 1), r \in 0..(rep - 1) :
                      ret.val[f][r] = AccuracyOf(FeatureOf(x, args.xcol, f), obj.y,
                                                 obj.clf, obj.cv[r + 1])

\* C16: whatever fit and stat calls are made, with whatever method and number
\* of permutations, the label vector held by the classify object and the
\* feature array of the caller keep their values.
C16_DatasetUnchanged ==
    [][(obj.made /\ obj'.made) => (obj'.y = obj.y /\ x' = x)]_vars

\* stat has shuffled the labels for at least one permutation, and the
\* shuffled copy differs from the labels the object holds
C16_Witness ==
    /\ pc = "stat"
    /\ ret.status = "ok"
    /\ args.method = S_label_rnd
    /\ args.n_perm >= 1
    /\ \E f \in DOMAIN ret.val.daPerm.val :
          \E k \in DOMAIN ret.val.daPerm.val[f] : ret.val.daPerm.val[f][k].y # obj.y

\* stat was called with one of the three permutation methods
PermStatDone == pc = "stat" /\ args.method \in Range(StatMethods) \ {S_bino}

\* C17: a permutation-method stat on the array and the accuracies of a fit
\* splits the array into the features fit used: daPerm has one row per row
\* of da, each of n_perm accuracies of that feature, and there is one p-value
\* per feature.
C17_StatSameFeatures ==
    PermStatDone =>
        /\ ret.status = "ok"
        /\ ret.val.daPerm.dtype = "float64"
        /\ Len(ret.val.daPerm.val) = Shape0(da.val)
        /\ Len(ret.val.pvalue) = Shape0(da.val)
        /\ \A f \in 1..Len(ret.val.daPerm.val) :
              /\ Len(ret.val.daPerm.val[f]) = args.n_perm
              /\ args.method = S_label_rnd =>
                    \A k \in 1..args.n_perm :
                        ret.val.daPerm.val[f][k].x = FeatureOf(x, da.xcol, f - 1)

====
